---- MODULE Spec2Model ----
(***************************************************************************)
(* Zoom recording webhook -> Gemini analysis -> GoHighLevel note.          *)
(* Model of src/main.py: the webhook endpoint zoom_webhook, the background *)
(* job process_recording_logic and the helpers it calls.  The external     *)
(* services (Zoom, Gemini, GoHighLevel, the file system) answer            *)
(* nondeterministically; every helper is computed from the answer the way  *)
(* the code computes it.                                                   *)
(***************************************************************************)
EXTENDS Integers, Sequences, FiniteSets, TLC

\* ------------------------------------------------------------------------
\* Bounds
\* ------------------------------------------------------------------------
MaxRequests == 2      \* webhook requests handled in one behaviour

\* ------------------------------------------------------------------------
\* Python values
\* ------------------------------------------------------------------------
None == "None"
Falsy(x) == x = None \/ x = ""
Truthy(x) == ~Falsy(x)

MIN_DURATION == 2

HOST_EMAILS == <<"support@fullbookai.com", "ofer.rapaport@gmail.com">>

\* str.lower() on the e-mail addresses of the model
Lower(e) ==
  CASE e = "Support@FullbookAI.com" -> "support@fullbookai.com"
    [] e = "Guest@Client.com" -> "guest@client.com"
    [] OTHER -> e

SeqToSet(s) == {s[i] : i \in 1..Len(s)}

\* the index, from i on, of the first TRUE in a sequence of booleans, 0 when
\* there is none: the for/if/return loops and next((... for ... if ...), None)
RECURSIVE FirstIndex(_, _)
FirstIndex(flags, i) ==
  IF i > Len(flags) THEN 0
  ELSE IF flags[i] THEN i
  ELSE FirstIndex(flags, i + 1)

\* ------------------------------------------------------------------------
\* ZOOM API HELPERS
\* ------------------------------------------------------------------------
\* answers of the OAuth endpoint: the request or raise_for_status raises, or
\* a JSON body with or without access_token
TokenResponses ==
  { [kind |-> "raise", access_token |-> None],
    [kind |-> "ok", access_token |-> None],
    [kind |-> "ok", access_token |-> "tok"] }

get_zoom_access_token(resp) ==
  IF resp.kind = "raise" THEN None ELSE resp.access_token

\* answers of the past_meetings participants endpoint
ParticipantLists ==
  { <<>>,
    <<"support@fullbookai.com">>,
    <<"Support@FullbookAI.com", None, "Guest@Client.com">>,
    <<"ofer.rapaport@gmail.com", "support@fullbookai.com">> }

ParticipantResponses ==
  { [kind |-> "raise", status_code |-> 0, participants |-> <<>>],
    [kind |-> "ok", status_code |-> 404, participants |-> <<>>] }
  \cup { [kind |-> "ok", status_code |-> 200, participants |-> p] :
           p \in ParticipantLists }

IsHostEmail(email) ==
  Lower(email) \in {Lower(HOST_EMAILS[i]) : i \in 1..Len(HOST_EMAILS)}

\* mutation of IsGuest: the exclusion list is not consulted
IsGuest_AnyEmail(email) == Truthy(email)

IsGuest(email) == Truthy(email) /\ ~IsHostEmail(email)

\* the value get_guest_email_from_zoom returns; presp is only read when the
\* token is truthy
get_guest_email_from_zoom(tresp, presp) ==
  LET token == get_zoom_access_token(tresp)
      i == FirstIndex([k \in 1..Len(presp.participants) |->
                         IsGuest(presp.participants[k])], 1)
  IN  IF Falsy(token) THEN None
      ELSE IF presp.kind = "raise" THEN None
      ELSE IF presp.status_code # 200 THEN None
      ELSE IF i = 0 THEN None
      ELSE Lower(presp.participants[i])

\* whether the participants list that was read holds an address of
\* HOST_EMAILS (line 72 compares every address it visits with the list)
SawHostEmail(tresp, presp) ==
  /\ Truthy(get_zoom_access_token(tresp))
  /\ presp.kind = "ok"
  /\ presp.status_code = 200
  /\ \E i \in 1..Len(presp.participants) :
        Truthy(presp.participants[i]) /\ IsHostEmail(presp.participants[i])

\* the HTTP calls get_guest_email_from_zoom issues
ZoomCalls(tresp) ==
  IF Falsy(get_zoom_access_token(tresp)) THEN <<"zoom_token">>
  ELSE <<"zoom_token", "zoom_participants">>

\* ------------------------------------------------------------------------
\* GHL HELPERS
\* ------------------------------------------------------------------------
\* answers of GET /contacts/: the ids of the contacts returned, in order
ContactResponses ==
  { [kind |-> "raise", contacts |-> <<>>] }
  \cup { [kind |-> "ok", contacts |-> c] :
           c \in { <<>>, <<"">>, <<"c1">>, <<"c1", "c9">> } }

NameResponses ==
  { [kind |-> "raise", contacts |-> <<>>],
    [kind |-> "ok", contacts |-> <<>>],
    [kind |-> "ok", contacts |-> <<"c3">>] }

find_contact_by_email(email, resp) ==
  IF Falsy(email) THEN None
  ELSE IF resp.kind = "raise" THEN None
  ELSE IF resp.contacts = <<>> THEN None
  ELSE resp.contacts[1]

EmailCalls(email) == IF Falsy(email) THEN <<>> ELSE <<"ghl_email_search">>

\* answers of GET /appointments/: loc is the set of meeting ids that occur
\* in location + address + title
AppointmentLists ==
  { <<>>,
    << [loc |-> {"111"}, contactId |-> "c2"] >>,
    << [loc |-> {"999"}, contactId |-> "c9"],
       [loc |-> {"111"}, contactId |-> "c2"] >>,
    << [loc |-> {"111"}, contactId |-> None],
       [loc |-> {"111"}, contactId |-> "c2"] >> }

AppointmentResponses ==
  { [kind |-> "raise", status_code |-> 0, appointments |-> <<>>],
    [kind |-> "ok", status_code |-> 500,
     appointments |-> << [loc |-> {"111"}, contactId |-> "c2"] >>] }
  \cup { [kind |-> "ok", status_code |-> 200, appointments |-> a] :
           a \in AppointmentLists }

find_client_by_appointment(zoom_id, resp) ==
  LET appts == IF resp.status_code = 200 THEN resp.appointments ELSE <<>>
      i == FirstIndex([k \in 1..Len(appts) |-> zoom_id \in appts[k].loc], 1)
  IN  IF resp.kind = "raise" THEN None
      ELSE IF i = 0 THEN None
      ELSE appts[i].contactId

\* a name is the sequence of its characters
find_contact_by_name(name, resp) ==
  IF Len(name) < 3 THEN None
  ELSE IF resp.kind = "raise" THEN None
  ELSE IF resp.contacts = <<>> THEN None
  ELSE resp.contacts[1]

NameCalls(name) == IF Len(name) < 3 THEN <<>> ELSE <<"ghl_name_search">>

\* answers of POST /contacts/{id}/notes
NoteResponses == {"ok", "raise"}

create_ghl_note(resp) ==
  IF resp = "ok" THEN "Successfully uploaded note" ELSE "GHL Note Creation Failed"

\* ------------------------------------------------------------------------
\* Generated text: a sequence of lines, a line a sequence of tokens; MARK is
\* the substring "**Client Name:**", " " is white space
\* ------------------------------------------------------------------------
MARK == "**Client Name:**"

Texts ==
  { << <<>> >>,
    << <<MARK, " ", "D", "a", "n", " ">>, <<"S", "u", "m">> >>,
    << <<"S", "u", "m">>, <<MARK, " ", "A", "l">>, <<MARK, "D", "a", "n">> >> }

HasMarker(line) == \E i \in 1..Len(line) : line[i] = MARK

\* line.replace("**Client Name:**", "")
RECURSIVE RemoveMarker(_)
RemoveMarker(line) ==
  IF line = <<>> THEN <<>>
  ELSE IF Head(line) = MARK THEN RemoveMarker(Tail(line))
  ELSE <<Head(line)>> \o RemoveMarker(Tail(line))

\* str.strip()
RECURSIVE LStrip(_)
LStrip(s) ==
  IF s = <<>> THEN <<>>
  ELSE IF Head(s) = " " THEN LStrip(Tail(s))
  ELSE s

RECURSIVE RStrip(_)
RStrip(s) ==
  IF s = <<>> THEN <<>>
  ELSE IF s[Len(s)] = " " THEN RStrip(SubSeq(s, 1, Len(s) - 1))
  ELSE s

Strip(s) == RStrip(LStrip(s))

\* mutation of MarkerLine: the loop has no break, the last marker line wins
MarkerLine_Last(text) ==
  IF \A k \in 1..Len(text) : ~HasMarker(text[k]) THEN 0
  ELSE CHOOSE k \in 1..Len(text) :
         HasMarker(text[k]) /\ \A m \in (k + 1)..Len(text) : ~HasMarker(text[m])

\* index of the first line holding the marker, 0 when there is none
MarkerLine(text) ==
  FirstIndex([k \in 1..Len(text) |-> HasMarker(text[k])], 1)

detected_name(text) == Strip(RemoveMarker(text[MarkerLine(text)]))

\* ------------------------------------------------------------------------
\* ENDPOINT  POST /zoom-webhook
\* ------------------------------------------------------------------------
ZOOM_WEBHOOK_SECRET == "s3cret"

\* mutation of HmacSha256Hex: a plain digest of the message, the key unused
HmacSha256Hex_Unkeyed(key, msg) == <<"sha256", msg>>

\* hmac.new(key, msg, sha256).hexdigest(), kept symbolic: equal digests
\* exactly for equal key and message
HmacSha256Hex(key, msg) == <<"hmac-sha256", key, msg>>

\* payload.object.duration as it arrives: absent, a JSON string or a number
Durations ==
  { [kind |-> "missing", val |-> 0],
    [kind |-> "str", val |-> 0] }
  \cup { [kind |-> "int", val |-> v] : v \in (MIN_DURATION - 1)..(MIN_DURATION + 1) }

\* payload.object.recording_files
FileLists ==
  { <<>>,
    << [file_type |-> "MP4", download_url |-> "https://zoom/rec.mp4"] >>,
    << [file_type |-> "M4A", download_url |-> "https://zoom/rec.m4a"],
       [file_type |-> "MP4", download_url |-> "https://zoom/rec.mp4"] >>,
    << [file_type |-> "M4A", download_url |-> "https://zoom/rec.m4a"] >>,
    << [file_type |-> "MP4", download_url |-> None] >> }

FullFiles ==
  << [file_type |-> "MP4", download_url |-> "https://zoom/rec.mp4"] >>

\* the request bodies of the model.  body: "malformed" is not JSON, "array"
\* is JSON that is not an object, "object" is a JSON object with the fields
\* that follow (None for an absent key)
Request(body, event, plainToken, duration, files, download_token) ==
  [body |-> body, event |-> event, plainToken |-> plainToken,
   id |-> "111", uuid |-> "/uu//id", duration |-> duration,
   recording_files |-> files, download_token |-> download_token]

NoDuration == [kind |-> "missing", val |-> 0]

Requests ==
  { Request("malformed", None, None, NoDuration, <<>>, None),
    Request("array", None, None, NoDuration, <<>>, None),
    Request("object", "meeting.started", None, NoDuration, FullFiles, "dtok"),
    Request("object", "endpoint.url_validation", None, NoDuration, <<>>, None),
    Request("object", "endpoint.url_validation", "abc123", NoDuration, <<>>, None),
    Request("object", "recording.completed", None,
            [kind |-> "int", val |-> MIN_DURATION], FullFiles, None) }
  \cup { Request("object", "recording.completed", None, d, FullFiles, "dtok") :
           d \in Durations }
  \cup { Request("object", "recording.completed", None,
                 [kind |-> "int", val |-> MIN_DURATION], f, "dtok") :
           f \in FileLists }

Response(status) ==
  [status |-> status, plainToken |-> None, encryptedToken |-> <<>>]

NoTask == [download_url |-> None, zoom_id |-> None, zoom_uuid |-> None,
           download_token |-> None]

IsMP4(f) == f.file_type = "MP4"

\* mutation of Mp4DownloadUrl: the first file's URL whatever its type
Mp4DownloadUrl_AnyFile(files) ==
  IF files = <<>> THEN None ELSE files[1].download_url

\* next((f.get("download_url") for f in files if f.get("file_type") == "MP4"), None)
Mp4DownloadUrl(files) ==
  LET i == FirstIndex([k \in 1..Len(files) |-> IsMP4(files[k])], 1)
  IN  IF i = 0 THEN None ELSE files[i].download_url

\* mutation of zoom_webhook: no try/except, an exception becomes a 500
zoom_webhook_NoCatch(req) ==
  LET error == [response |-> Response("500"), added |-> <<>>]
      ignored == [response |-> Response("ignored"), added |-> <<>>]
      download_url == Mp4DownloadUrl(req.recording_files)
  IN  IF req.body # "object" THEN error
      ELSE IF req.event = "endpoint.url_validation" THEN
        IF req.plainToken = None THEN error
        ELSE [response |->
                [status |-> None, plainToken |-> req.plainToken,
                 encryptedToken |->
                   HmacSha256Hex(ZOOM_WEBHOOK_SECRET, req.plainToken)],
              added |-> <<>>]
      ELSE IF req.event = "recording.completed" THEN
        IF req.duration.kind = "str" THEN error
        ELSE IF req.duration.val < MIN_DURATION THEN
          [response |-> Response("too_short"), added |-> <<>>]
        ELSE IF Truthy(download_url) /\ Truthy(req.download_token) THEN
          [response |-> Response("queued"),
           added |-> << [download_url |-> download_url,
                         zoom_id |-> req.id, zoom_uuid |-> req.uuid,
                         download_token |-> req.download_token] >>]
        ELSE ignored
      ELSE ignored

\* what one call of zoom_webhook returns and the tasks it adds to
\* background_tasks (a sequence of argument tuples)
zoom_webhook(req) ==
  LET error == [response |-> Response("error"), added |-> <<>>]
      ignored == [response |-> Response("ignored"), added |-> <<>>]
      download_url == Mp4DownloadUrl(req.recording_files)
  IN  IF req.body # "object" THEN error
      ELSE IF req.event = "endpoint.url_validation" THEN
        IF req.plainToken = None THEN error
        ELSE [response |->
                [status |-> None, plainToken |-> req.plainToken,
                 encryptedToken |->
                   HmacSha256Hex(ZOOM_WEBHOOK_SECRET, req.plainToken)],
              added |-> <<>>]
      ELSE IF req.event = "recording.completed" THEN
        IF req.duration.kind = "str" THEN error
        ELSE IF req.duration.val < MIN_DURATION THEN
          [response |-> Response("too_short"), added |-> <<>>]
        ELSE IF Truthy(download_url) /\ Truthy(req.download_token) THEN
          [response |-> Response("queued"),
           added |-> << [download_url |-> download_url,
                         zoom_id |-> req.id, zoom_uuid |-> req.uuid,
                         download_token |-> req.download_token] >>]
        ELSE ignored
      ELSE ignored

\* ------------------------------------------------------------------------
\* State
\* ------------------------------------------------------------------------
VARIABLES
  handled,    \* webhook requests answered so far
  last,       \* the latest request, its response, the tasks it added
  tasks,      \* background tasks added and not yet started (argument tuples)
  scheduled,  \* add_task calls so far
  queued,     \* {"status": "queued"} responses so far
  started,    \* jobs started so far; job n owns temp file n and handle n
  job,        \* the locals and position of the running process_recording_logic
  fs,         \* temp files that exist on disk
  remote      \* upload handles that exist on the AI service

vars == <<handled, last, tasks, scheduled, queued, started, job, fs, remote>>

NoPath == 0
NoFile == [name |-> 0, state |-> None]
NoText == <<>>

\* the locals of process_recording_logic on entry (lines 148-156)
NewJob(args) ==
  [pc |-> "A", args |-> args,
   guest_email |-> None, contact_id |-> None,
   temp_file_path |-> NoPath, tmp_open |-> FALSE, written |-> "nothing",
   file_upload |-> NoFile, result_text |-> NoText,
   note_to |-> None, excluded |-> FALSE, name_query |-> <<>>,
   calls |-> <<>>, logs |-> <<>>, error |-> None, escaped |-> None]

IdleJob == [NewJob(NoTask) EXCEPT !.pc = "idle"]

NoRequest == Request("none", None, None, NoDuration, <<>>, None)

Init ==
  /\ handled = 0
  /\ last = [req |-> NoRequest, response |-> Response(None), added |-> 0]
  /\ tasks = <<>>
  /\ scheduled = 0
  /\ queued = 0
  /\ started = 0
  /\ job = IdleJob
  /\ fs = {}
  /\ remote = {}

\* mutation of Webhook: the handler calls process_recording_logic itself
\* instead of add_task when no job is running
Webhook_Inline(req) ==
  LET r == zoom_webhook(req)
      inline == r.added # <<>> /\ job.pc \in {"idle", "done"}
  IN
  /\ handled < MaxRequests
  /\ handled' = handled + 1
  /\ last' = [req |-> req, response |-> r.response, added |-> Len(r.added)]
  /\ tasks' = IF inline THEN tasks ELSE tasks \o r.added
  /\ job' = IF inline THEN NewJob(r.added[1]) ELSE job
  /\ started' = IF inline THEN started + 1 ELSE started
  /\ scheduled' = scheduled + Len(r.added)
  /\ queued' = queued + (IF r.response.status = "queued" THEN 1 ELSE 0)
  /\ UNCHANGED <<fs, remote>>

\* POST /zoom-webhook: the whole handler; it only adds the task, the task
\* runs after the response
Webhook(req) ==
  LET r == zoom_webhook(req) IN
  /\ handled < MaxRequests
  /\ handled' = handled + 1
  /\ last' = [req |-> req, response |-> r.response, added |-> Len(r.added)]
  /\ tasks' = tasks \o r.added
  /\ scheduled' = scheduled + Len(r.added)
  /\ queued' = queued + (IF r.response.status = "queued" THEN 1 ELSE 0)
  /\ UNCHANGED <<started, job, fs, remote>>

\* the next background task starts.  Jobs share no variable: each works on
\* its own locals, its own temp file and its own upload handle, so the model
\* runs them one after another while requests keep arriving in between
StartJob ==
  /\ job.pc \in {"idle", "done"}
  /\ tasks # <<>>
  /\ job' = NewJob(Head(tasks))
  /\ tasks' = Tail(tasks)
  /\ started' = started + 1
  /\ UNCHANGED <<handled, last, scheduled, queued, fs, remote>>

\* mutation of Raise: no except clause and no finally: the exception ends
\* the job where it was raised
Raise_NoHandler(j, step) ==
  [j EXCEPT !.error = step, !.tmp_open = FALSE, !.pc = "crashed"]

\* an exception inside the try block: the with blocks close the temp file,
\* the except clause logs, control goes to finally
Raise(j, step) ==
  [j EXCEPT !.error = step, !.tmp_open = FALSE,
            !.logs = Append(@, "Process Error"), !.pc = "remove"]

Call(j, names) == [j EXCEPT !.calls = @ \o names]

\* Step A (lines 159-162)
StepA(tresp, presp, cresp) ==
  LET guest_email == get_guest_email_from_zoom(tresp, presp)
      contact_id == IF Truthy(guest_email)
                      THEN find_contact_by_email(guest_email, cresp)
                      ELSE None
  IN
  /\ job.pc = "A"
  /\ job' = [Call(job, ZoomCalls(tresp) \o EmailCalls(guest_email))
               EXCEPT !.guest_email = guest_email,
                      !.excluded = SawHostEmail(tresp, presp),
                      !.contact_id = contact_id,
                      !.pc = "B"]
  /\ UNCHANGED <<handled, last, tasks, scheduled, queued, started, fs, remote>>

\* mutation of StepB: the appointment search runs whatever step A found
StepB_Always(aresp) ==
  LET found == find_client_by_appointment(job.args.zoom_id, aresp) IN
  /\ job.pc = "B"
  /\ job' = [Call(job, <<"ghl_appointments">>)
               EXCEPT !.contact_id = IF Truthy(found) THEN found ELSE @,
                      !.pc = "open"]
  /\ UNCHANGED <<handled, last, tasks, scheduled, queued, started, fs, remote>>

\* Step B (lines 165-167)
StepB(aresp) ==
  /\ job.pc = "B"
  /\ job' = IF Falsy(job.contact_id)
              THEN [Call(job, <<"ghl_appointments">>)
                      EXCEPT !.contact_id =
                               find_client_by_appointment(job.args.zoom_id, aresp),
                             !.pc = "open"]
              ELSE [job EXCEPT !.pc = "open"]
  /\ UNCHANGED <<handled, last, tasks, scheduled, queued, started, fs, remote>>

\* tempfile.NamedTemporaryFile(delete=False) (lines 171-172)
OpenTemp(outcome) ==
  /\ job.pc = "open"
  /\ IF outcome = "ok"
       THEN /\ job' = [job EXCEPT !.temp_file_path = started,
                                  !.tmp_open = TRUE, !.pc = "get"]
            /\ fs' = fs \cup {started}
       ELSE /\ job' = Raise(job, "tempfile")
            /\ fs' = fs
  /\ UNCHANGED <<handled, last, tasks, scheduled, queued, started, remote>>

\* requests.get(auth_url, stream=True) and raise_for_status (lines 173-174)
RequestGet(outcome) ==
  /\ job.pc = "get"
  /\ job' = IF outcome = "ok"
              THEN [Call(job, <<"download">>) EXCEPT !.pc = "chunks"]
              ELSE Raise(Call(job, <<"download">>), "download")
  /\ UNCHANGED <<handled, last, tasks, scheduled, queued, started, fs, remote>>

\* mutation of WriteChunk: a broken stream is taken for the end of the body
WriteChunk_SwallowError(outcome) ==
  /\ job.pc = "chunks"
  /\ job' = IF outcome = "ok"
              THEN [job EXCEPT !.written = "partial"]
              ELSE [job EXCEPT !.tmp_open = FALSE, !.pc = "upload"]
  /\ UNCHANGED <<handled, last, tasks, scheduled, queued, started, fs, remote>>

\* one round of the iter_content loop (line 175): a chunk arrives and is
\* written, or the stream breaks; the file then holds a part of the body
WriteChunk(outcome) ==
  /\ job.pc = "chunks"
  /\ job' = IF outcome = "ok"
              THEN [job EXCEPT !.written = "partial"]
              ELSE Raise(job, "download")
  /\ UNCHANGED <<handled, last, tasks, scheduled, queued, started, fs, remote>>

\* the body is exhausted: the file holds all of it, both with blocks exit and
\* the temp file is closed
CloseTemp ==
  /\ job.pc = "chunks"
  /\ job' = [job EXCEPT !.written = "complete", !.tmp_open = FALSE,
                        !.pc = "upload"]
  /\ UNCHANGED <<handled, last, tasks, scheduled, queued, started, fs, remote>>

FileStates == {"PROCESSING", "ACTIVE", "FAILED"}

\* the while condition of line 179
AfterState(state) == IF state = "PROCESSING" THEN "poll" ELSE "generate"

\* genai.upload_file (line 178)
Upload(outcome, state) ==
  /\ job.pc = "upload"
  /\ IF outcome = "ok"
       THEN /\ job' = [Call(job, <<"upload_file">>)
                         EXCEPT !.file_upload = [name |-> started, state |-> state],
                                !.pc = AfterState(state)]
            /\ remote' = remote \cup {started}
       ELSE /\ job' = Raise(Call(job, <<"upload_file">>), "upload_file")
            /\ remote' = remote
  /\ UNCHANGED <<handled, last, tasks, scheduled, queued, started, fs>>

\* one round of the polling loop (lines 179-181); calls keeps one get_file
\* entry for the whole loop
Poll(outcome, state) ==
  LET j == IF job.calls[Len(job.calls)] = "get_file"
             THEN job ELSE Call(job, <<"get_file">>)
  IN
  /\ job.pc = "poll"
  /\ job' = IF outcome = "ok"
              THEN [j EXCEPT !.file_upload.state = state, !.pc = AfterState(state)]
              ELSE Raise(j, "get_file")
  /\ UNCHANGED <<handled, last, tasks, scheduled, queued, started, fs, remote>>

\* mutation of Generate: a failed generation is passed over and the job goes
\* on without a text
Generate_IgnoreError(outcome, text) ==
  /\ job.pc = "generate"
  /\ job' = IF outcome = "ok"
              THEN [Call(job, <<"generate_content">>)
                      EXCEPT !.result_text = text, !.pc = "fallback"]
              ELSE [Call(job, <<"generate_content">>) EXCEPT !.pc = "publish"]
  /\ UNCHANGED <<handled, last, tasks, scheduled, queued, started, fs, remote>>

\* model.generate_content and response.text (lines 198-199)
Generate(outcome, text) ==
  /\ job.pc = "generate"
  /\ job' = IF outcome = "ok"
              THEN [Call(job, <<"generate_content">>)
                      EXCEPT !.result_text = text, !.pc = "fallback"]
              ELSE Raise(Call(job, <<"generate_content">>), "generate_content")
  /\ UNCHANGED <<handled, last, tasks, scheduled, queued, started, fs, remote>>

\* mutation of Fallback: the fallback repeats the appointment search after
\* the generation instead of querying by name
Fallback_SearchAgain(nresp) ==
  LET text == job.result_text
      name == detected_name(text)
  IN
  /\ job.pc = "fallback"
  /\ job' = IF Falsy(job.contact_id) /\ MarkerLine(text) # 0
              THEN [Call(job, <<"ghl_appointments">>)
                      EXCEPT !.contact_id = find_contact_by_name(name, nresp),
                             !.pc = "publish"]
              ELSE [job EXCEPT !.pc = "publish"]
  /\ UNCHANGED <<handled, last, tasks, scheduled, queued, started, fs, remote>>

\* 4. fallback by extracted name (lines 202-208)
Fallback(nresp) ==
  LET text == job.result_text
      name == detected_name(text)
  IN
  /\ job.pc = "fallback"
  /\ job' = IF Falsy(job.contact_id) /\ MarkerLine(text) # 0
              THEN [Call(job, NameCalls(name))
                      EXCEPT !.contact_id = find_contact_by_name(name, nresp),
                             !.name_query = IF NameCalls(name) = <<>>
                                              THEN @ ELSE name,
                             !.pc = "publish"]
              ELSE [job EXCEPT !.pc = "publish"]
  /\ UNCHANGED <<handled, last, tasks, scheduled, queued, started, fs, remote>>

\* mutation of Publish: the note is written without the contact check
Publish_Unchecked(resp) ==
  /\ job.pc = "publish"
  /\ job' = [Call(job, <<"ghl_note">>)
               EXCEPT !.note_to = job.contact_id,
                      !.logs = Append(@, create_ghl_note(resp)),
                      !.pc = "remove"]
  /\ UNCHANGED <<handled, last, tasks, scheduled, queued, started, fs, remote>>

\* 5. upload to GHL or the failsafe log (lines 211-216)
Publish(resp) ==
  /\ job.pc = "publish"
  /\ job' = IF Truthy(job.contact_id)
              THEN [Call(job, <<"ghl_note">>)
                      EXCEPT !.note_to = job.contact_id,
                             !.logs = Append(@, create_ghl_note(resp)),
                             !.pc = "remove"]
              ELSE [job EXCEPT !.logs = @ \o <<"NO GHL CONTACT FOUND", "ANALYSIS">>,
                               !.pc = "remove"]
  /\ UNCHANGED <<handled, last, tasks, scheduled, queued, started, fs, remote>>

\* mutation of FinallyRemove: the removal sits at the end of the try block
\* instead of in finally, so it is skipped after an exception
FinallyRemove_OnSuccessOnly(outcome) ==
  /\ job.pc = "remove"
  /\ IF job.error = None /\ job.temp_file_path # NoPath /\ job.temp_file_path \in fs
       THEN IF outcome = "ok"
              THEN /\ job' = [Call(job, <<"os.remove">>) EXCEPT !.pc = "release"]
                   /\ fs' = fs \ {job.temp_file_path}
              ELSE /\ job' = [Call(job, <<"os.remove">>)
                                EXCEPT !.escaped = "os.remove", !.pc = "done"]
                   /\ fs' = fs
       ELSE /\ job' = [job EXCEPT !.pc = "release"]
            /\ fs' = fs
  /\ UNCHANGED <<handled, last, tasks, scheduled, queued, started, remote>>

\* finally, first statement (line 221); an exception here leaves the function
FinallyRemove(outcome) ==
  /\ job.pc = "remove"
  /\ IF job.temp_file_path # NoPath /\ job.temp_file_path \in fs
       THEN IF outcome = "ok"
              THEN /\ job' = [Call(job, <<"os.remove">>) EXCEPT !.pc = "release"]
                   /\ fs' = fs \ {job.temp_file_path}
              ELSE /\ job' = [Call(job, <<"os.remove">>)
                                EXCEPT !.escaped = "os.remove", !.pc = "done"]
                   /\ fs' = fs
       ELSE /\ job' = [job EXCEPT !.pc = "release"]
            /\ fs' = fs
  /\ UNCHANGED <<handled, last, tasks, scheduled, queued, started, remote>>

\* finally, second statement (line 222)
FinallyRelease(outcome) ==
  /\ job.pc = "release"
  /\ IF job.file_upload # NoFile
       THEN IF outcome = "ok"
              THEN /\ job' = [Call(job, <<"delete_file">>) EXCEPT !.pc = "done"]
                   /\ remote' = remote \ {job.file_upload.name}
              ELSE /\ job' = [Call(job, <<"delete_file">>)
                                EXCEPT !.escaped = "delete_file", !.pc = "done"]
                   /\ remote' = remote
       ELSE /\ job' = [job EXCEPT !.pc = "done"]
            /\ remote' = remote
  /\ UNCHANGED <<handled, last, tasks, scheduled, queued, started, fs>>

Outcomes == {"ok", "raise"}

Next ==
  \/ \E req \in Requests : Webhook(req)
  \/ StartJob
  \/ \E t \in TokenResponses, p \in ParticipantResponses, c \in ContactResponses :
       StepA(t, p, c)
  \/ \E a \in AppointmentResponses : StepB(a)
  \/ \E o \in Outcomes : OpenTemp(o)
  \/ \E o \in Outcomes : RequestGet(o)
  \/ \E o \in Outcomes : WriteChunk(o)
  \/ CloseTemp
  \/ \E o \in Outcomes, s \in FileStates : Upload(o, s)
  \/ \E o \in Outcomes, s \in FileStates : Poll(o, s)
  \/ \E o \in Outcomes, t \in Texts : Generate(o, t)
  \/ \E n \in NameResponses : Fallback(n)
  \/ \E r \in NoteResponses : Publish(r)
  \/ \E o \in Outcomes : FinallyRemove(o)
  \/ \E o \in Outcomes : FinallyRelease(o)

Spec == Init /\ [][Next]_vars

\* the steps of a started job whose external call returns or raises; Poll is
\* left out: the AI service may answer PROCESSING for ever
JobProgress ==
  \/ \E t \in TokenResponses, p \in ParticipantResponses, c \in ContactResponses :
       StepA(t, p, c)
  \/ \E a \in AppointmentResponses : StepB(a)
  \/ \E o \in Outcomes : OpenTemp(o)
  \/ \E o \in Outcomes : RequestGet(o)
  \/ \E o \in Outcomes : WriteChunk(o)
  \/ CloseTemp
  \/ \E o \in Outcomes, s \in FileStates : Upload(o, s)
  \/ \E o \in Outcomes, t \in Texts : Generate(o, t)
  \/ \E n \in NameResponses : Fallback(n)
  \/ \E r \in NoteResponses : Publish(r)
  \/ \E o \in Outcomes : FinallyRemove(o)
  \/ \E o \in Outcomes : FinallyRelease(o)

\* the requests that schedule a job
SchedulingRequests == {req \in Requests : zoom_webhook(req).added # <<>>}

\* the system under requests that each schedule a job
FairNext ==
  \/ \E req \in SchedulingRequests : Webhook(req)
  \/ StartJob
  \/ JobProgress
  \/ \E o \in Outcomes, s \in FileStates : Poll(o, s)

\* a started job is a running thread: it keeps taking steps (fair scheduling)
\* and each of its calls returns or raises
FairSpec == Init /\ [][FairNext]_vars /\ WF_vars(JobProgress)

\* ------------------------------------------------------------------------
\* Properties
\* ------------------------------------------------------------------------
Called(name) == name \in SeqToSet(job.calls)
Logged(line) == line \in SeqToSet(job.logs)
Ended == job.pc = "done"
InCleanup == job.pc \in {"remove", "release", "done"}

\* the files that may exist: the temp file of the running job, from its
\* creation to the end of the job
LiveFiles ==
  IF job.pc \in {"idle", "done"} \/ job.temp_file_path = NoPath
    THEN {} ELSE {job.temp_file_path}

C2_HandleReleasedAtJobEnd ==
  Ended /\ job.file_upload # NoFile => Called("delete_file")

\* C3 as stated: no error escapes a job, a failure of the handle release or
\* of the temp file removal included.
C3_NoErrorEscapesJob == job.escaped = None

LookupCalls == {"zoom_token", "zoom_participants", "ghl_email_search",
                "ghl_appointments", "ghl_name_search"}

Lookups(calls) == SelectSeq(calls, LAMBDA c : c \in LookupCalls)

Position(calls, name) ==
  IF \E i \in 1..Len(calls) : calls[i] = name
    THEN CHOOSE i \in 1..Len(calls) :
           calls[i] = name /\ \A k \in 1..(i - 1) : calls[k] # name
    ELSE 0

Before(calls, a, b) ==
  Position(calls, a) # 0 /\ Position(calls, b) # 0
    => Position(calls, a) < Position(calls, b)

C4_WaterfallOrder ==
  /\ Before(job.calls, "ghl_email_search", "ghl_appointments")
  /\ Before(job.calls, "ghl_email_search", "ghl_name_search")
  /\ Before(job.calls, "ghl_appointments", "ghl_name_search")
  /\ job.note_to # None => job.note_to = job.contact_id

C4_FirstMatchWins ==
  job.pc \notin {"idle", "done"} /\ Truthy(job.contact_id)
    => /\ job'.contact_id = job.contact_id
       /\ Lookups(job'.calls) = Lookups(job.calls)
       /\ job'.note_to \in {None, job.contact_id}

\* C4: contact resolution is a waterfall in the order e-mail lookup,
\* appointment search, name lookup.  Once a strategy has yielded a non-empty
\* contact id, no later lookup is issued, the id is kept, and it is the
\* contact the note is written to; the lookups appear in that order.
C4_Waterfall == [](C4_WaterfallOrder) /\ [][C4_FirstMatchWins]_vars

\* the e-mail lookup matched: the note went to its contact and the
\* appointment search was never called
C4_Witness ==
  /\ job.note_to = "c1"
  /\ Called("ghl_email_search")
  /\ ~Called("ghl_appointments")
  /\ ~Called("ghl_name_search")

ShortRecording(req) ==
  /\ req.body = "object"
  /\ req.event = "recording.completed"
  /\ req.duration.kind = "int"
  /\ req.duration.val < MIN_DURATION

\* C5 as stated: a recording.completed webhook with a duration below the
\* minimum is answered with status "skipped" and schedules no job.
C5_ShortRecordingSkipped ==
  ShortRecording(last.req)
    => last.response.status = "skipped" /\ last.added = 0

HasMp4Url(files) ==
  \E i \in 1..Len(files) :
    files[i].file_type = "MP4" /\ Truthy(files[i].download_url)

Accepted(req) ==
  /\ req.body = "object"
  /\ req.event = "recording.completed"
  /\ req.duration.kind = "int"
  /\ req.duration.val >= MIN_DURATION
  /\ HasMp4Url(req.recording_files)
  /\ Truthy(req.download_token)

C6_RequestStep ==
  handled' = handled + 1 /\ Accepted(last'.req)
    => /\ last'.response.status = "queued"
       /\ last'.added = 1
       /\ Len(tasks') = Len(tasks) + 1
       /\ tasks'[Len(tasks')].download_token = last'.req.download_token
       /\ job' = job
       /\ started' = started
       /\ fs' = fs
       /\ remote' = remote

RoutingRaises(req) ==
  \/ req.body \in {"malformed", "array"}
  \/ req.body = "object" /\ req.event = "endpoint.url_validation"
       /\ req.plainToken = None
  \/ req.body = "object" /\ req.event = "recording.completed"
       /\ req.duration.kind = "str"

\* C7: every request gets a response; a request whose routing raises (body
\* not JSON or not an object, handshake without plainToken, non-numeric
\* duration) is answered {"status": "error"} and schedules no job.
C7_RoutingErrorAnswered ==
  /\ handled > 0 =>
       last.response.status \in {None, "queued", "too_short", "ignored", "error"}
  /\ RoutingRaises(last.req) =>
       last.response = Response("error") /\ last.added = 0

\* a recording.completed event with a non-numeric duration was answered
\* "error"
C7_Witness ==
  /\ last.req.event = "recording.completed"
  /\ last.req.duration.kind = "str"
  /\ last.response.status = "error"
  /\ scheduled = 0

\* C8: when no strategy yielded a contact, the note call is never issued and
\* the generated text is logged instead.
C8_NoContactNoNote ==
  /\ Called("ghl_note") => Truthy(job.contact_id) /\ job.note_to = job.contact_id
  /\ InCleanup /\ job.error = None /\ Falsy(job.contact_id)
       => ~Called("ghl_note") /\ Logged("ANALYSIS")

\* all three strategies were consulted and came back empty; the job ended
\* with the text in the log
C8_Witness ==
  /\ Ended
  /\ Called("ghl_email_search")
  /\ Called("ghl_appointments")
  /\ Called("ghl_name_search")
  /\ Falsy(job.contact_id)
  /\ Logged("ANALYSIS")

\* C9 as stated: when polling ends in state FAILED the job fails there: no
\* generation request is issued for the handle and no note is published.
C9_FailedHandleStopsJob ==
  job.file_upload.state = "FAILED"
    => /\ ~Called("generate_content")
       /\ ~Called("ghl_note")
       /\ (InCleanup => job.error # None)

\* C10 as stated: when an e-mail of the meeting is on the exclusion list,
\* processing ends early: no transcription is requested and no note is
\* published.
C10_ExcludedEmailSkipsProcessing ==
  job.excluded
    => /\ ~Called("upload_file")
       /\ ~Called("generate_content")
       /\ ~Called("ghl_note")

\* C10 amended: an address on the exclusion list is passed over when the
\* guest e-mail is picked from the participants, so the guest e-mail, the
\* only address looked up in the CRM, is never on the list; the recording
\* itself is processed as usual.
C10_ExcludedEmailNeverGuest ==
  /\ Truthy(job.guest_email) => ~IsHostEmail(job.guest_email)
  /\ Called("ghl_email_search") => Truthy(job.guest_email)

\* the participants held a listed address, the guest behind it was picked and
\* the note was published
C10_Witness ==
  /\ job.excluded
  /\ job.guest_email = "guest@client.com"
  /\ Called("generate_content")
  /\ Called("ghl_note")

\* the place of a call in the chain download, upload, poll, generate,
\* resolve, publish
ChainRank(call) ==
  CASE call = "download" -> 1
    [] call = "upload_file" -> 2
    [] call = "get_file" -> 3
    [] call = "generate_content" -> 4
    [] call \in LookupCalls -> 5
    [] call = "ghl_note" -> 6
    [] OTHER -> 7

\* the place of a call in the order of the code
CodeRank(call) ==
  CASE call = "zoom_token" -> 1
    [] call = "zoom_participants" -> 2
    [] call = "ghl_email_search" -> 3
    [] call = "ghl_appointments" -> 4
    [] call = "download" -> 5
    [] call = "upload_file" -> 6
    [] call = "get_file" -> 7
    [] call = "generate_content" -> 8
    [] call = "ghl_name_search" -> 9
    [] call = "ghl_note" -> 10
    [] call = "os.remove" -> 11
    [] OTHER -> 12

\* C11 as stated: the calls of one job are issued in the order download,
\* upload, poll, generate, resolve, publish, none ahead of an earlier stage.
C11_ChainOrder ==
  \A i \in 1..Len(job.calls), k \in 1..Len(job.calls) :
    i < k => ChainRank(job.calls[i]) <= ChainRank(job.calls[k])

\* C11 amended: the calls of one job are issued strictly one after another in
\* the order token exchange, participants, CRM e-mail search, appointment
\* search, download, upload, poll, generate, CRM name search, note write,
\* file removal, handle release: resolution by e-mail and by appointment
\* comes before the download, only the name fallback comes after the
\* generation; no stage is issued ahead of an earlier one of that order, and
\* a stage is issued only when the stage it needs has returned.
C11_CodeOrder ==
  /\ \A i \in 1..Len(job.calls), k \in 1..Len(job.calls) :
       i < k => CodeRank(job.calls[i]) < CodeRank(job.calls[k])
  /\ Called("download") => Called("zoom_token")
  /\ Called("upload_file") => Called("download") /\ job.written = "complete"
  /\ Called("get_file") => Called("upload_file")
  /\ Called("generate_content") => Called("upload_file")
  /\ Called("ghl_name_search") => Called("generate_content")
  /\ Called("ghl_note") => Called("generate_content")

\* a job that went through every stage: lookups, download, upload, poll,
\* generation, name fallback, note
C11_Witness ==
  /\ Ended
  /\ job.calls = <<"zoom_token", "ghl_appointments", "download", "upload_file",
                   "get_file", "generate_content", "ghl_name_search",
                   "ghl_note", "os.remove", "delete_file">>

Running == job.pc \notin {"idle", "done"}
Polling == job.pc = "poll" /\ job.file_upload.state = "PROCESSING"

C12_EndsThroughCleanup ==
  job.pc # "done" /\ job'.pc = "done" => job.pc \in {"remove", "release"}

RECURSIVE LineLen(_)
LineLen(line) ==
  IF line = <<>> THEN 0
  ELSE (IF Head(line) = MARK THEN 16 ELSE 1) + LineLen(Tail(line))

RECURSIVE TextLen(_)
TextLen(text) ==
  IF text = <<>> THEN 0
  ELSE IF Len(text) = 1 THEN LineLen(text[1])
  ELSE LineLen(Head(text)) + 1 + TextLen(Tail(text))

\* C13 as stated: the CRM note write is never issued for a body shorter than
\* the minimum length of 10 characters, e.g. an empty generated text.
C13_ShortNoteNotWritten ==
  Called("ghl_note") => TextLen(job.result_text) >= 10

\* C14: upload_file is called only when the download ran to the end of the
\* body without error and the temp file is closed; a job whose temp file,
\* download request or chunk stream failed issues no upload, no generation
\* and no note.
C14_UploadAfterCompleteDownload ==
  /\ Called("upload_file") =>
       /\ job.written = "complete"
       /\ ~job.tmp_open
       /\ job.temp_file_path # NoPath
       /\ job.error \notin {"tempfile", "download"}
  /\ job.pc \in {"upload", "poll", "generate", "fallback", "publish"} =>
       job.written = "complete" /\ ~job.tmp_open
  /\ job.error \in {"tempfile", "download"} =>
       /\ ~Called("upload_file")
       /\ ~Called("generate_content")
       /\ ~Called("ghl_note")
       /\ job.file_upload = NoFile

\* the stream broke after a part of the body was written; the job ended
\* without upload
C14_Witness ==
  /\ Ended
  /\ job.error = "download"
  /\ job.written = "partial"
  /\ ~Called("upload_file")

OtherEvent(req) ==
  /\ req.body = "object"
  /\ req.event \notin {"endpoint.url_validation", "recording.completed"}

Handshake(req) ==
  /\ req.body = "object"
  /\ req.event = "endpoint.url_validation"
  /\ req.plainToken # None

C15_RequestStep ==
  handled' = handled + 1 /\ (OtherEvent(last'.req) \/ Handshake(last'.req))
    => /\ OtherEvent(last'.req) => last'.response = Response("ignored")
       /\ Handshake(last'.req) =>
            last'.response =
              [status |-> None, plainToken |-> last'.req.plainToken,
               encryptedToken |->
                 <<"hmac-sha256", "s3cret", last'.req.plainToken>>]
       /\ last'.added = 0
       /\ tasks' = tasks
       /\ scheduled' = scheduled
       /\ queued' = queued
       /\ started' = started
       /\ job' = job
       /\ fs' = fs
       /\ remote' = remote

\* C15: a request whose event is neither endpoint.url_validation nor
\* recording.completed is answered {"status": "ignored"}, schedules no job
\* and changes nothing else; a handshake request carrying a plainToken is
\* answered in the same step with that plainToken and the HMAC-SHA256 of it
\* under the configured secret, and schedules no job either.
C15_IgnoredAndHandshake == [][C15_RequestStep]_vars

\* a handshake was answered with the keyed digest of its token while another
\* job's task was pending
C15_Witness ==
  /\ Handshake(last.req)
  /\ last.response.plainToken = "abc123"
  /\ last.response.encryptedToken = <<"hmac-sha256", "s3cret", "abc123">>
  /\ last.added = 0
  /\ scheduled = 1
  /\ Len(tasks) = 1

PassesDuration(req) ==
  /\ req.body = "object"
  /\ req.event = "recording.completed"
  /\ req.duration.kind = "int"
  /\ req.duration.val >= MIN_DURATION

\* C16: a request adds a task only if it is a recording.completed event
\* whose duration is at least the minimum and which carries an MP4 download
\* URL and a download token; such an event lacking the URL or the token is
\* answered "ignored" and adds nothing; the number of add_task calls equals
\* the number of "queued" responses (and every added task is pending or
\* started).
C16_ScheduledOnlyWhenAccepted ==
  /\ last.added > 0 => Accepted(last.req) /\ last.added = 1
  /\ last.added > 0 <=> last.response.status = "queued"
  /\ PassesDuration(last.req) /\ ~Accepted(last.req) =>
       last.response = Response("ignored") /\ last.added = 0
  /\ scheduled = queued
  /\ scheduled = started + Len(tasks)

\* after one job was scheduled, an event with a long enough duration and an
\* MP4 URL but no download token was answered "ignored"
C16_Witness ==
  /\ PassesDuration(last.req)
  /\ HasMp4Url(last.req.recording_files)
  /\ last.req.download_token = None
  /\ last.response.status = "ignored"
  /\ handled = 2
  /\ scheduled = 1
  /\ queued = 1

Count(calls, name) == Cardinality({i \in 1..Len(calls) : calls[i] = name})

\* C17: a job issues at most one POST /contacts/{id}/notes, and only after
\* its generate_content call returned a text; a job in which the temp file,
\* the download, upload_file, get_file or generate_content raised issues
\* none; a note write that fails is logged, raises nothing in the job and
\* leaves it in its cleanup: an exception leaving the job then comes from
\* the cleanup calls only.
C17_OneNoteAfterGeneration ==
  /\ Count(job.calls, "ghl_note") <= 1
  /\ Called("ghl_note") =>
       /\ Count(job.calls, "generate_content") = 1
       /\ Before(job.calls, "generate_content", "ghl_note")
       /\ job.result_text \in Texts
       /\ job.error = None
  /\ job.error # None => ~Called("ghl_note") /\ job.note_to = None
  /\ Logged("GHL Note Creation Failed") =>
       /\ Called("ghl_note")
       /\ job.error = None
       /\ ~Logged("Process Error")
       /\ InCleanup
       /\ job.escaped \in {None, "os.remove", "delete_file"}

\* the one note write failed; the job cleaned up and ended, nothing escaped
C17_Witness ==
  /\ Ended
  /\ Logged("GHL Note Creation Failed")
  /\ Count(job.calls, "ghl_note") = 1
  /\ job.escaped = None
  /\ Called("os.remove")
  /\ Called("delete_file")

\* the name on the first line of the text that holds the marker
FirstMarkerName(text) ==
  LET k == CHOOSE i \in 1..Len(text) :
             HasMarker(text[i]) /\ \A m \in 1..(i - 1) : ~HasMarker(text[m])
  IN  Strip(RemoveMarker(text[k]))

NoMarker(text) == \A i \in 1..Len(text) : ~HasMarker(text[i])

\* C18: no lookup failure fails the job: after step A and step B the job has
\* no error whatever the Zoom and CRM answers were; unless the e-mail search
\* gave a contact the appointment search is issued; a job that got through
\* the generation with no contact from either issues the name search when
\* the first marker line of the text gives a name of 3 characters or more.
\* The name search is issued at most once, with the name of the first
\* marker line, and never with a name of fewer than 3 characters.
C18_LookupFailureIsEmpty ==
  /\ job.error \in {None, "tempfile", "download", "upload_file", "get_file",
                    "generate_content"}
  /\ job.pc \in {"B", "open"} => job.error = None /\ ~Logged("Process Error")
  /\ job.pc \notin {"idle", "A"} => Called("zoom_token")
  /\ job.pc \notin {"idle", "A", "B"} /\ ~Called("ghl_appointments") =>
       Called("ghl_email_search") /\ Truthy(job.contact_id)
  /\ job.pc \in {"publish", "remove", "release", "done"} /\ job.error = None
       /\ ~Called("ghl_name_search") =>
         \/ Truthy(job.contact_id)
         \/ NoMarker(job.result_text)
         \/ Len(FirstMarkerName(job.result_text)) < 3
  /\ Count(job.calls, "ghl_name_search") <= 1
  /\ Called("ghl_name_search") =>
       /\ Before(job.calls, "generate_content", "ghl_name_search")
       /\ ~NoMarker(job.result_text)
       /\ job.name_query = FirstMarkerName(job.result_text)
       /\ Len(job.name_query) >= 3
  /\ ~Called("ghl_name_search") => job.name_query = <<>>

\* the token exchange failed and the appointment search found nothing; the
\* job went on to the download, the generation and the name search, which
\* found the contact the note went to
C18_Witness ==
  /\ Ended
  /\ job.calls = <<"zoom_token", "ghl_appointments", "download", "upload_file",
                   "generate_content", "ghl_name_search", "ghl_note",
                   "os.remove", "delete_file">>
  /\ job.guest_email = None
  /\ job.name_query = <<"D", "a", "n">>
  /\ job.note_to = "c3"

====
